---------------------------- MODULE Spec2Model ----------------------------
(***************************************************************************)
(* Model of src/main.py: the Streamlit "Schema & Style Guide Extractor".   *)
(*                                                                         *)
(* Python values are tagged records:                                       *)
(*   None            [t |-> "null"]                                        *)
(*   True / False    [t |-> "bool", b |-> TRUE]                            *)
(*   int             [t |-> "int",  n |-> 1]                               *)
(*   str             [t |-> "str",  s |-> "abc"]                           *)
(*   list            [t |-> "list", l |-> << v1, v2, ... >>]               *)
(*   dict            [t |-> "dict", d |-> << [k |-> "key", v |-> v1], ..>>]*)
(* A dict keeps its entries in insertion order and its keys are unique     *)
(* strings, as in every value json.loads returns.  A raised exception is   *)
(* a value Exc(type, msg).  A text is a string; SubSeq and Len give its          *)
(* characters.                                                             *)
(***************************************************************************)
EXTENDS Integers, Sequences, FiniteSets, TLC

VARIABLES
    pc,           \* position of the script run started by a click on Extract
    OpenAI,       \* the name bound by the guarded import, main.py 8-11
    pasted,       \* contents of the text area
    raw_text,     \* main.py 225-229
    client,       \* main.py 241
    created,      \* number of calls of get_openai_client in this run
    calls,        \* the completion calls of this run, in the order issued
    result,       \* value returned by extract_json_with_openai
    error,        \* exception raised out of extract_json_with_openai, or None
    ui,           \* what the run has shown: a sequence of widgets
    phase,        \* position of a run of the sanitizer on its own
    raw_result,   \* argument of sanitize_result_with_guidelines
    sanitized,    \* its result
    resanitized   \* the result of sanitizing that result

vars == << pc, OpenAI, pasted, raw_text, client, created, calls, result, error,
           ui, phase, raw_result, sanitized, resanitized >>

appVars == << pc, OpenAI, pasted, raw_text, client, created, calls, result,
              error, ui >>

sanVars == << phase, raw_result, sanitized, resanitized >>

---------------------------------------------------------------------------
(* Python values *)

None == [t |-> "null"]

\* a raised exception, as the value of the expression that raised it
Exc(type, msg) == [t |-> "raised", type |-> type, msg |-> msg]

IsRaised(v) == v.t = "raised"

JBool(b) == [t |-> "bool", b |-> b]

JInt(n) == [t |-> "int", n |-> n]

JStr(s) == [t |-> "str", s |-> s]

JList(l) == [t |-> "list", l |-> l]

JDict(d) == [t |-> "dict", d |-> d]

KV(k, v) == [k |-> k, v |-> v]

isinstance_dict(v) == v.t = "dict"

isinstance_list(v) == v.t = "list"

isinstance_str(v) == v.t = "str"

\* key in d, for the entries d of a dict
dict_contains(d, key) == \E i \in 1..Len(d) : d[i].k = key

\* dict.get(key, default); attribute lookup on a non-dict raises
dict_get(v, key, default) ==
    IF ~isinstance_dict(v)
    THEN Exc("AttributeError", "object has no attribute 'get'")
    ELSE IF dict_contains(v.d, key)
         THEN v.d[CHOOSE i \in 1..Len(v.d) : v.d[i].k = key].v
         ELSE default

\* d[key] = value on the entries d of a dict: an existing key keeps its place
dict_set(d, key, value) ==
    IF dict_contains(d, key)
    THEN [i \in 1..Len(d) |-> IF d[i].k = key THEN KV(key, value) ELSE d[i]]
    ELSE Append(d, KV(key, value))

\* the characters str.strip() removes (those the model's texts use)
Whitespace == {" ", "\n", "\t", "\r", "\f"}

RECURSIVE str_is_blank(_)
\* not s.strip(), for a str s
str_is_blank(s) ==
    \/ s = ""
    \/ /\ SubSeq(s, 1, 1) \in Whitespace
       /\ str_is_blank(SubSeq(s, 2, Len(s)))

Digit(n) == CASE n = 0 -> "0" [] n = 1 -> "1" [] n = 2 -> "2" [] n = 3 -> "3"
              [] n = 4 -> "4" [] n = 5 -> "5" [] n = 6 -> "6" [] n = 7 -> "7"
              [] n = 8 -> "8" [] n = 9 -> "9"

RECURSIVE int_str(_)
int_str(n) ==
    IF n < 0 THEN "-" \o int_str(0 - n)
    ELSE IF n < 10 THEN Digit(n)
    ELSE int_str(n \div 10) \o Digit(n % 10)

RECURSIVE py_repr(_)
RECURSIVE repr_items(_)
RECURSIVE repr_entries(_)
\* repr(v); a str is quoted (the strings of the model hold no quote or escape)
py_repr(v) ==
    CASE v.t = "null" -> "None"
      [] v.t = "bool" -> IF v.b THEN "True" ELSE "False"
      [] v.t = "int"  -> int_str(v.n)
      [] v.t = "str"  -> "'" \o v.s \o "'"
      [] v.t = "list" -> "[" \o repr_items(v.l) \o "]"
      [] v.t = "dict" -> "{" \o repr_entries(v.d) \o "}"

repr_items(l) ==
    IF l = << >> THEN ""
    ELSE IF Len(l) = 1 THEN py_repr(l[1])
    ELSE py_repr(l[1]) \o ", " \o repr_items(Tail(l))

repr_entries(d) ==
    IF d = << >> THEN ""
    ELSE LET e == "'" \o d[1].k \o "': " \o py_repr(d[1].v)
         IN IF Len(d) = 1 THEN e ELSE e \o ", " \o repr_entries(Tail(d))

\* str(v): a str is itself, anything else its repr
py_str(v) == IF v.t = "str" THEN v.s ELSE py_repr(v)

---------------------------------------------------------------------------
(* Texts *)

\* s[i-1:j] in Python's terms: the characters i..j of s that exist
slice(s, i, j) ==
    IF i > j \/ i > Len(s) THEN ""
    ELSE SubSeq(s, i, IF j > Len(s) THEN Len(s) ELSE j)

Char(s, i) == slice(s, i, i)

\* s.startswith(p)
startswith(s, p) == Len(s) >= Len(p) /\ slice(s, 1, Len(p)) = p

RECURSIVE lstrip(_)
lstrip(s) ==
    IF s # "" /\ Char(s, 1) \in Whitespace THEN lstrip(slice(s, 2, Len(s))) ELSE s

RECURSIVE rstrip(_)
rstrip(s) ==
    IF s # "" /\ Char(s, Len(s)) \in Whitespace
    THEN rstrip(slice(s, 1, Len(s) - 1)) ELSE s

\* s.strip()
strip(s) == rstrip(lstrip(s))

\* the least index >= i at which sub starts in s, 0 when there is none
find(s, sub, i) ==
    LET hits == {k \in i..(Len(s) - Len(sub) + 1) : slice(s, k, k + Len(sub) - 1) = sub}
    IN IF hits = {} THEN 0 ELSE CHOOSE k \in hits : \A h \in hits : k <= h

\* s.split(sep, 2)[1]: the text between the first sep and the second (or the
\* end); IndexError when s holds no sep
split2_second(s, sep) ==
    LET i == find(s, sep, 1)
    IN IF i = 0 THEN Exc("IndexError", "list index out of range")
       ELSE LET rest == slice(s, i + Len(sep), Len(s))
                j == find(rest, sep, 1)
            IN JStr(IF j = 0 THEN rest ELSE slice(rest, 1, j - 1))

---------------------------------------------------------------------------
(* json.loads, on the JSON texts of the model: objects, arrays, strings     *)
(* without escapes, integers, true, false, null.  A parse step returns      *)
(* [ok, v, i]: whether it parsed, the value, and the index after it.        *)

JsonWhitespace == {" ", "\n", "\t", "\r"}

\* characters json.loads (strict) refuses inside a string
ControlChars == {"\n", "\t", "\r", "\f"}

Digits == {"0", "1", "2", "3", "4", "5", "6", "7", "8", "9"}

DigitValue(c) == CHOOSE n \in 0..9 : Digit(n) = c

NoParse == [ok |-> FALSE, v |-> None, i |-> 0]

Parsed(v, i) == [ok |-> TRUE, v |-> v, i |-> i]

RECURSIVE skip_ws(_, _)
skip_ws(s, i) == IF Char(s, i) \in JsonWhitespace THEN skip_ws(s, i + 1) ELSE i

\* the string whose opening quote is at i
parse_string(s, i) ==
    LET j == find(s, "\"", i + 1)
    IN IF Char(s, i) # "\"" \/ j = 0 THEN NoParse
       ELSE IF \E k \in (i + 1)..(j - 1) : Char(s, k) \in ControlChars THEN NoParse
       ELSE Parsed(JStr(slice(s, i + 1, j - 1)), j + 1)

RECURSIVE parse_digits(_, _, _)
parse_digits(s, i, n) ==
    IF Char(s, i) \in Digits
    THEN parse_digits(s, i + 1, 10 * n + DigitValue(Char(s, i)))
    ELSE Parsed(JInt(n), i)

\* an integer: -?(0|[1-9][0-9]*), refused when a fraction or exponent follows
parse_number(s, i) ==
    LET neg == Char(s, i) = "-"
        k == IF neg THEN i + 1 ELSE i
        r == IF Char(s, k) = "0" THEN Parsed(JInt(0), k + 1)
             ELSE IF Char(s, k) \in Digits THEN parse_digits(s, k, 0)
             ELSE NoParse
    IN IF ~r.ok \/ Char(s, r.i) \in {".", "e", "E"} THEN NoParse
       ELSE IF neg THEN Parsed(JInt(0 - r.v.n), r.i) ELSE r

parse_literal(s, i) ==
    IF slice(s, i, i + 3) = "null" THEN Parsed(None, i + 4)
    ELSE IF slice(s, i, i + 3) = "true" THEN Parsed(JBool(TRUE), i + 4)
    ELSE IF slice(s, i, i + 4) = "false" THEN Parsed(JBool(FALSE), i + 5)
    ELSE NoParse

RECURSIVE parse_value(_, _)
RECURSIVE parse_elements(_, _, _)
RECURSIVE parse_members(_, _, _)
parse_value(s, i) ==
    LET c == Char(s, i)
    IN IF c = "\"" THEN parse_string(s, i)
       ELSE IF c = "[" THEN
           IF Char(s, skip_ws(s, i + 1)) = "]"
           THEN Parsed(JList(<< >>), skip_ws(s, i + 1) + 1)
           ELSE parse_elements(s, skip_ws(s, i + 1), << >>)
       ELSE IF c = "{" THEN
           IF Char(s, skip_ws(s, i + 1)) = "}"
           THEN Parsed(JDict(<< >>), skip_ws(s, i + 1) + 1)
           ELSE parse_members(s, skip_ws(s, i + 1), << >>)
       ELSE IF c = "-" \/ c \in Digits THEN parse_number(s, i)
       ELSE parse_literal(s, i)

\* the elements of an array from i on, acc those before
parse_elements(s, i, acc) ==
    LET r == parse_value(s, i)
        k == skip_ws(s, r.i)
    IN IF ~r.ok THEN NoParse
       ELSE IF Char(s, k) = "]" THEN Parsed(JList(Append(acc, r.v)), k + 1)
       ELSE IF Char(s, k) = ","
            THEN parse_elements(s, skip_ws(s, k + 1), Append(acc, r.v))
       ELSE NoParse

\* the members of an object from i on, acc those before; a repeated key
\* keeps its place and takes the last value
parse_members(s, i, acc) ==
    LET key == parse_string(s, i)
        c == skip_ws(s, key.i)
        r == parse_value(s, skip_ws(s, c + 1))
        k == skip_ws(s, r.i)
    IN IF ~key.ok \/ Char(s, c) # ":" THEN NoParse
       ELSE IF ~r.ok THEN NoParse
       ELSE IF Char(s, k) = "}"
            THEN Parsed(JDict(dict_set(acc, key.v.s, r.v)), k + 1)
       ELSE IF Char(s, k) = ","
            THEN parse_members(s, skip_ws(s, k + 1), dict_set(acc, key.v.s, r.v))
       ELSE NoParse

\* json.loads(content): TypeError for None, JSONDecodeError for a text that is
\* no JSON value with only JSON whitespace around it
json_loads(content) ==
    IF ~isinstance_str(content)
    THEN Exc("TypeError", "the JSON object must be str, bytes or bytearray")
    ELSE LET r == parse_value(content.s, skip_ws(content.s, 1))
         IN IF r.ok /\ skip_ws(content.s, r.i) > Len(content.s) THEN r.v
            ELSE Exc("JSONDecodeError", "Expecting value")

---------------------------------------------------------------------------
(* Schema utils, main.py 140-207 *)

\* main.py 141-143
schema_title(candidate) ==
    LET title == IF isinstance_dict(candidate)
                 THEN dict_get(candidate, "title", None) ELSE None
    IN IF ~isinstance_str(title) \/ str_is_blank(title.s)
       THEN JStr("Extracted Schema") ELSE title

\* main.py 145-149
properties_in(candidate) ==
    IF isinstance_dict(candidate)
    THEN LET props == dict_get(candidate, "properties", None)
         IN IF isinstance_dict(props) THEN props.d ELSE << >>
    ELSE << >>

\* main.py 153-157: desc for one value of properties_in
property_desc(schema) ==
    LET desc == IF isinstance_dict(schema)
                THEN dict_get(schema, "description", None) ELSE None
    IN IF desc = None THEN JStr("") ELSE desc

\* property_entry with repr(desc) in the place of str(desc)
property_entry_repr(schema) ==
    JDict(<< KV("type", JStr("string")),
             KV("description", JStr(py_repr(property_desc(schema)))) >>)

\* property_entry keeping the type an entry declares
property_entry_keeps_type(schema) ==
    JDict(<< KV("type", IF isinstance_dict(schema)
                        THEN dict_get(schema, "type", JStr("string"))
                        ELSE JStr("string")),
             KV("description", JStr(py_str(property_desc(schema)))) >>)

\* main.py 158: the value stored under str(key)
property_entry(schema) ==
    JDict(<< KV("type", JStr("string")),
             KV("description", JStr(py_str(property_desc(schema)))) >>)

RECURSIVE sanitize_properties(_, _)
\* main.py 151-158: the loop over properties_in.items(), acc the dict so far
sanitize_properties(items, acc) ==
    IF items = << >> THEN acc
    ELSE sanitize_properties(Tail(items),
             dict_set(acc, py_str(JStr(items[1].k)), property_entry(items[1].v)))

\* main.py 160-164
required_in(candidate) ==
    IF isinstance_dict(candidate)
    THEN LET req == dict_get(candidate, "required", None)
         IN IF isinstance_list(req)
            THEN LET strs == SelectSeq(req.l, isinstance_str)
                 IN [i \in 1..Len(strs) |-> JStr(py_str(strs[i]))]
            ELSE << >>
    ELSE << >>

\* required_filtered without the test against the sanitized properties
required_unfiltered(required, sanitized_properties) == required

\* main.py 165
required_filtered(required, sanitized_properties) ==
    LET present(k) == dict_contains(sanitized_properties, k.s)
    IN SelectSeq(required, present)

\* main.py 140-173
sanitize_to_string_schema(candidate) ==
    LET sanitized_properties == sanitize_properties(properties_in(candidate), << >>)
    IN JDict(<< KV("$schema", JStr("https://json-schema.org/draft/2020-12/schema")),
                KV("title", schema_title(candidate)),
                KV("type", JStr("object")),
                KV("properties", JDict(sanitized_properties)),
                KV("required",
                   JList(required_filtered(required_in(candidate),
                                           sanitized_properties))) >>)

\* main.py 203-206: str(x) if x is not None else ""
text_or_empty(x) == IF x # None THEN JStr(py_str(x)) ELSE JStr("")

\* sanitize_result_with_guidelines without the isinstance test of line 199
sanitize_result_unguarded(raw) ==
    LET candidate_schema == dict_get(raw, "schema", raw)
    IN IF IsRaised(candidate_schema) THEN candidate_schema
       ELSE JDict(<< KV("schema",
                        sanitize_to_string_schema(
                            IF isinstance_dict(candidate_schema)
                            THEN candidate_schema ELSE JDict(<< >>))),
                     KV("guidelines", text_or_empty(dict_get(raw, "guidelines", JStr("")))),
                     KV("style_guide", text_or_empty(dict_get(raw, "style_guide", JStr("")))) >>)

\* sanitize_result_with_guidelines reading the schema from the top level only
sanitize_result_flat_only(raw) ==
    IF ~isinstance_dict(raw)
    THEN JDict(<< KV("schema", sanitize_to_string_schema(JDict(<< >>))),
                  KV("guidelines", JStr("")),
                  KV("style_guide", JStr("")) >>)
    ELSE JDict(<< KV("schema", sanitize_to_string_schema(raw)),
                  KV("guidelines", text_or_empty(dict_get(raw, "guidelines", JStr("")))),
                  KV("style_guide", text_or_empty(dict_get(raw, "style_guide", JStr("")))) >>)

\* main.py 198-207
sanitize_result_with_guidelines(raw) ==
    IF ~isinstance_dict(raw)
    THEN JDict(<< KV("schema", sanitize_to_string_schema(JDict(<< >>))),
                  KV("guidelines", JStr("")),
                  KV("style_guide", JStr("")) >>)
    ELSE LET candidate_schema == dict_get(raw, "schema", raw)
             sanitized_schema ==
                 sanitize_to_string_schema(
                     IF isinstance_dict(candidate_schema)
                     THEN candidate_schema ELSE JDict(<< >>))
         IN JDict(<< KV("schema", sanitized_schema),
                     KV("guidelines", text_or_empty(dict_get(raw, "guidelines", JStr("")))),
                     KV("style_guide", text_or_empty(dict_get(raw, "style_guide", JStr("")))) >>)

---------------------------------------------------------------------------
(* The completion call, main.py 93-134 *)

\* SANY reads no backquote inside a string: the model writes "@" for "`"
Backtick == "@"

Fence == Backtick \o Backtick \o Backtick

\* a call that has not returned yet
Pending == [t |-> "pending"]

\* what client.chat.completions.create does: it raises, or returns a response
\* whose first choice has the content c (a str, or None)
CallRaises == [raises |-> TRUE, content |-> None]

Reply(c) == [raises |-> FALSE, content |-> c]

\* main.py 82-87
build_user_prompt(text) ==
    "\nUser Template (raw):\n--------------------\n" \o text \o "\n"

\* main.py 105-112 and 118-124: the request of a call
Request(mode, text) ==
    [mode |-> mode, prompt |-> build_user_prompt(text), resp |-> Pending]

\* main.py 105-114: the value the primary attempt returns, or what it raises
primary_attempt(resp) ==
    IF resp.raises THEN Exc("APIError", "Connection error.")
    ELSE json_loads(resp.content)

\* main.py 125-131: the text handed to json.loads on the fallback path
fallback_content(content) ==
    IF ~isinstance_str(content)
    THEN Exc("AttributeError", "'NoneType' object has no attribute 'strip'")
    ELSE LET stripped == strip(content.s)
         IN IF startswith(stripped, Fence)
            THEN LET inner == split2_second(stripped, Fence)
                 IN IF IsRaised(inner) THEN inner
                    ELSE IF startswith(inner.s, "json")
                         THEN JStr(strip(slice(inner.s, Len("json") + 1, Len(inner.s))))
                         ELSE inner
            ELSE JStr(stripped)

\* main.py 118-132: the value the fallback attempt returns, or what it raises
fallback_attempt(resp) ==
    IF resp.raises THEN Exc("APIError", "Connection error.")
    ELSE LET content == fallback_content(resp.content)
         IN IF IsRaised(content) THEN content ELSE json_loads(content)

\* main.py 133-134
RuntimeError(inner) ==
    [t |-> "raised", type |-> "RuntimeError",
     msg |-> "OpenAI parsing failed: " \o inner.msg, cause |-> inner]

---------------------------------------------------------------------------
(* Rendering, main.py 176-195 and 253-269.  The widgets a run has shown are *)
(* a sequence; the emoji of the labels are left out and "--" stands for the *)
(* dash shown in the place of an empty text.                                *)

Widget(w, body) == [w |-> w, body |-> body]

\* x or "--", for a str x
or_dash(x) == IF x.s = "" THEN "--" ELSE x.s

RECURSIVE table_rows(_)
\* main.py 183-188
table_rows(properties) ==
    IF properties = << >> THEN << >>
    ELSE LET field_schema == IF isinstance_dict(properties[1].v)
                             THEN properties[1].v ELSE JDict(<< >>)
             description == dict_get(field_schema, "description", JStr(""))
         IN << << properties[1].k, "string",
                  IF isinstance_str(description) THEN or_dash(description)
                  ELSE py_str(description) >> >>
            \o table_rows(Tail(properties))

\* main.py 176-195
render_schema_table(schema) ==
    LET t == dict_get(schema, "title", None)
        title == IF t = None \/ t = JStr("") THEN "Schema" ELSE t.s
        p == dict_get(schema, "properties", JDict(<< >>))
        properties == IF p = None THEN JDict(<< >>) ELSE p
    IN << Widget("subheader", title) >>
       \o IF ~isinstance_dict(properties) \/ properties.d = << >>
          THEN << Widget("info", "No fields detected in schema.") >>
          ELSE << Widget("dataframe", table_rows(properties.d)) >>

\* main.py 253-266
render_result(combined) ==
    << Widget("success", "Extraction complete") >>
    \o render_schema_table(dict_get(combined, "schema", None))
    \o << Widget("markdown", "### Guidelines"),
          Widget("write", or_dash(dict_get(combined, "guidelines", None))),
          Widget("markdown", "### Style guide"),
          Widget("markdown", or_dash(dict_get(combined, "style_guide", JStr("")))),
          Widget("json", combined) >>

---------------------------------------------------------------------------
(* The script, main.py 213-269 *)

\* main.py 31-35: OpenAI() raises when the guarded import left OpenAI = None,
\* or when the constructor refuses (no API key in the environment)
get_openai_client(sdk, constructs) ==
    IF sdk = "None" THEN Exc("TypeError", "'NoneType' object is not callable")
    ELSE IF ~constructs
         THEN Exc("OpenAIError", "The api_key client option must be set")
    ELSE [t |-> "object", class |-> "OpenAI"]

\* bool(x) for what get_openai_client returns
truthy(x) == x.t = "object"

\* raw_text_of without the strip: blank text counts as text
raw_text_unstripped(text) == text

\* main.py 225-229
raw_text_of(text) == IF strip(text) # "" THEN strip(text) ELSE ""

---------------------------------------------------------------------------
(* JSON-like inputs of the sanitizer *)

\* largest number of entries of an input's properties mapping
MaxProps == 2

\* largest length of an input's required list
MaxReq == 2

\* a key the generators leave out
Absent == [t |-> "absent"]

Opt(k, v) == IF v = Absent THEN << >> ELSE << KV(k, v) >>

FieldNames == {"f" \o int_str(i) : i \in 1..MaxProps}

\* values of one entry of properties
EntryVals ==
    { JStr("text"),
      JDict(<< KV("type", JStr("integer")),
               KV("description", JStr("count of items")) >>),
      JDict(<< KV("description", None), KV("type", JStr("string")) >>),
      JDict(<< KV("description", JList(<< JStr("a"), JInt(10), None >>)),
               KV("properties", JDict(<< KV("x", JDict(<< >>)) >>)) >>) }

EntryKeys(d) == {d[i].k : i \in 1..Len(d)}

RECURSIVE EntrySeqs(_)
\* the entry sequences of at most n distinct field names, in every order
EntrySeqs(n) ==
    IF n = 0 THEN {<< >>}
    ELSE LET prev == EntrySeqs(n - 1)
         IN prev \cup
            UNION { { Append(d, KV(k, e)) : k \in FieldNames \ EntryKeys(d),
                                            e \in EntryVals }
                    : d \in {x \in prev : Len(x) = n - 1} }

PropsVals ==
    {Absent, None, JList(<< JStr("f1") >>)} \cup {JDict(d) : d \in EntrySeqs(MaxProps)}

PropsCore ==
    { Absent,
      JDict(<< KV("f1", JDict(<< KV("type", JStr("integer")) >>)) >>),
      JDict(<< KV("f2", JDict(<< KV("description", JInt(7)) >>)),
               KV("f1", JDict(<< KV("description", JStr("the username")) >>)) >>) }

ReqElems == {JStr(k) : k \in FieldNames} \cup {JStr("ghost"), JInt(1)}

RECURSIVE ReqSeqs(_)
ReqSeqs(n) ==
    IF n = 0 THEN {<< >>}
    ELSE LET prev == ReqSeqs(n - 1)
         IN prev \cup {Append(r, x) : r \in {y \in prev : Len(y) = n - 1},
                                      x \in ReqElems}

ReqVals ==
    {Absent, None, JStr("f1"), JDict(<< KV("f1", JBool(TRUE)) >>)}
        \cup {JList(r) : r \in ReqSeqs(MaxReq)}

ReqCore ==
    { Absent,
      JList(<< JStr("f1"), JStr("ghost") >>),
      JList(<< JStr("f2"), JInt(1), JStr("f1"), JStr("f1") >>) }

TitleVals ==
    {Absent, None, JInt(1), JStr(""), JStr(" \n"), JStr("Login"), JStr(" T ")}

TitleCore == {Absent, JStr("Login")}

MkSchema(title, props, req) ==
    JDict(Opt("title", title) \o Opt("type", JStr("array"))
            \o Opt("properties", props) \o Opt("required", req))

\* schema-shaped objects
Schemas ==
    {MkSchema(t, p, r) : t \in TitleCore, p \in PropsVals, r \in ReqCore}
        \cup {MkSchema(t, p, r) : t \in TitleVals, p \in PropsCore, r \in ReqVals}

SchemasCore == {MkSchema(t, p, r) : t \in TitleCore, p \in PropsCore, r \in ReqCore}

NonDicts ==
    {None, JBool(TRUE), JInt(3), JStr("schema"), JList(<< >>),
     JList(<< JDict(<< KV("schema", JDict(<< >>)) >>) >>)}

\* (guidelines, style_guide)
Texts ==
    { << Absent, Absent >>,
      << JStr("Use BDD phrasing."), Absent >>,
      << None, None >>,
      << JInt(5), JList(<< JStr("x"), JBool(FALSE) >>) >>,
      << JStr(""), JStr("* present tense") >> }

RawInputs ==
    NonDicts
      \cup {JDict(<< >>)}
      \* a full result: the schema nested under "schema"
      \cup {JDict(Opt("schema", s) \o Opt("guidelines", JStr("Use BDD phrasing.")))
              : s \in Schemas}
      \* a flattened result: the schema's keys at the top
      \cup {JDict(s.d \o Opt("guidelines", JStr("Use BDD phrasing.")))
              : s \in Schemas}
      \* guidelines and style guide of every kind, nested and flattened
      \cup {JDict(Opt("schema", s) \o Opt("guidelines", g[1]) \o Opt("style_guide", g[2]))
              : s \in SchemasCore \cup NonDicts, g \in Texts}
      \cup {JDict(Opt("guidelines", g[1]) \o s.d \o Opt("style_guide", g[2]))
              : s \in SchemasCore, g \in Texts}
      \* both: a "schema" key beside schema keys at the top
      \cup {JDict(Opt("schema", s) \o t.d)
              : s \in SchemasCore \cup NonDicts, t \in SchemasCore}

---------------------------------------------------------------------------
(* The sanitizer on its own: sanitize an input, then sanitize the result *)

AppIdle ==
    /\ pc = "idle"
    /\ OpenAI = "class"
    /\ pasted = ""
    /\ raw_text = ""
    /\ client = None
    /\ created = 0
    /\ calls = << >>
    /\ result = None
    /\ error = None
    /\ ui = << >>

InitSanitize ==
    /\ AppIdle
    /\ phase = "input"
    /\ raw_result \in RawInputs
    /\ sanitized = None
    /\ resanitized = None

Sanitize ==
    /\ phase = "input"
    /\ sanitized' = sanitize_result_with_guidelines(raw_result)
    /\ phase' = "sanitized"
    /\ UNCHANGED << raw_result, resanitized >>
    /\ UNCHANGED appVars

Resanitize ==
    /\ phase = "sanitized"
    /\ ~IsRaised(sanitized)
    /\ resanitized' = sanitize_result_with_guidelines(sanitized)
    /\ phase' = "resanitized"
    /\ UNCHANGED << raw_result, sanitized >>
    /\ UNCHANGED appVars

NextSanitize == Sanitize \/ Resanitize

SpecSanitize == InitSanitize /\ [][NextSanitize]_vars

---------------------------------------------------------------------------
(* The application: a click on Extract runs the script with the pasted      *)
(* text; the run waits at each completion call for the endpoint's answer.   *)

\* texts of the text area
Pastes == {"", " \n\t", "Given/When/Then login test", "\n # Login \n"}

\* JSON texts and others a reply may carry
Bodies ==
    { "7",
      "{\"title\": \"Login\", \"properties\": {\"username\": {\"type\": \"integer\", \"description\": \"the username\"}}, \"required\": [\"username\", \"ghost\"], \"guidelines\": null}",
      "{\"schema\": {\"title\": \"Login\"}, \"guidelines\": \"Use BDD phrasing.\"}",
      "\"" \o Fence \o "\"",
      "{\"style_guide\": \"" \o Fence \o "gherkin Given" \o Fence \o "\"}",
      "{\"schema\": ",
      "Sure, here it is" }

\* a body in a fenced block: the opening fence, the language tag if any, the
\* body on lines of its own, the closing fence
Fenced(tag, b) == Fence \o tag \o "\n" \o b \o "\n" \o Fence

\* the ways a reply wraps a body
Wrappings(b) ==
    { b,
      "\n " \o b \o "\n",
      "\f" \o b,
      Fenced("json", b),
      Fenced("", b),
      "\n" \o Fenced("json", b) \o "\n",
      Fence \o "json" \o b \o Fence,
      Fence \o "json\n" \o b }

Responses ==
    {CallRaises, Reply(None)}
        \cup {Reply(JStr(c)) : c \in UNION {Wrappings(b) : b \in Bodies}}

SanitizerOff ==
    /\ phase = "off"
    /\ raw_result = None
    /\ sanitized = None
    /\ resanitized = None

Init ==
    /\ pc = "idle"
    /\ OpenAI \in {"class", "None"}
    /\ pasted = ""
    /\ raw_text = ""
    /\ client = None
    /\ created = 0
    /\ calls = << >>
    /\ result = None
    /\ error = None
    /\ ui = << >>
    /\ SanitizerOff

\* main.py 225-245, up to the primary call: the user has pasted text and
\* clicks Extract; constructs tells whether OpenAI() returns a client
ClickExtract(text, constructs) ==
    /\ pc = "idle"
    /\ pasted' = text
    /\ raw_text' = raw_text_of(text)
    /\ IF raw_text' = ""
       THEN /\ ui' = << Widget("error", "Please paste some template text.") >>
            /\ pc' = "stopped"
            /\ UNCHANGED << client, created, calls, error >>
       ELSE LET c == get_openai_client(OpenAI, constructs)
            IN /\ created' = created + 1
               /\ IF IsRaised(c)
                  THEN /\ pc' = "uncaught"
                       /\ error' = c
                       /\ UNCHANGED << client, calls, ui >>
                  ELSE IF ~truthy(c)
                  THEN /\ pc' = "stopped"
                       /\ client' = c
                       /\ UNCHANGED << calls, error, ui >>
                  ELSE /\ pc' = "primary"
                       /\ client' = c
                       /\ calls' = << Request("json_object", raw_text') >>
                       /\ UNCHANGED << error, ui >>
    /\ UNCHANGED << OpenAI, result >>
    /\ UNCHANGED sanVars

\* PrimaryResponds issuing the fallback call whatever the primary attempt gave
PrimaryResponds_always_fallback(resp) ==
    /\ pc = "primary"
    /\ calls' = Append([calls EXCEPT ![1].resp = resp], Request("none", raw_text))
    /\ pc' = "fallback"
    /\ UNCHANGED << OpenAI, pasted, raw_text, client, created, result, error, ui >>
    /\ UNCHANGED sanVars

\* main.py 105-124: the primary call returns or raises; a failure issues the
\* fallback call
PrimaryResponds(resp) ==
    /\ pc = "primary"
    /\ LET r == primary_attempt(resp)
           answered == [calls EXCEPT ![1].resp = resp]
       IN IF IsRaised(r)
          THEN /\ calls' = Append(answered, Request("none", raw_text))
               /\ pc' = "fallback"
               /\ UNCHANGED result
          ELSE /\ calls' = answered
               /\ result' = r
               /\ pc' = "extracted"
    /\ UNCHANGED << OpenAI, pasted, raw_text, client, created, error, ui >>
    /\ UNCHANGED sanVars

\* main.py 118-134: the fallback call returns or raises
FallbackResponds(resp) ==
    /\ pc = "fallback"
    /\ calls' = [calls EXCEPT ![2].resp = resp]
    /\ LET r == fallback_attempt(resp)
       IN IF IsRaised(r)
          THEN /\ error' = RuntimeError(r)
               /\ pc' = "raised"
               /\ UNCHANGED result
          ELSE /\ result' = r
               /\ pc' = "extracted"
               /\ UNCHANGED error
    /\ UNCHANGED << OpenAI, pasted, raw_text, client, created, ui >>
    /\ UNCHANGED sanVars

\* main.py 253-266
Render ==
    /\ pc = "extracted"
    /\ ui' = ui \o render_result(sanitize_result_with_guidelines(result))
    /\ pc' = "done"
    /\ UNCHANGED << OpenAI, pasted, raw_text, client, created, calls, result, error >>
    /\ UNCHANGED sanVars

\* ShowError going on to render the result, as if lines 253-266 followed the try
ShowError_then_render ==
    /\ pc = "raised"
    /\ ui' = Append(ui, Widget("error", "Failed to extract JSON: " \o error.msg))
               \o render_result(sanitize_result_with_guidelines(result))
    /\ pc' = "done"
    /\ UNCHANGED << OpenAI, pasted, raw_text, client, created, calls, result, error >>
    /\ UNCHANGED sanVars

\* main.py 268-269
ShowError ==
    /\ pc = "raised"
    /\ ui' = Append(ui, Widget("error", "Failed to extract JSON: " \o error.msg))
    /\ pc' = "done"
    /\ UNCHANGED << OpenAI, pasted, raw_text, client, created, calls, result, error >>
    /\ UNCHANGED sanVars

\* the run is over; the next interaction runs the script afresh
Rerun ==
    /\ pc \in {"done", "stopped", "uncaught"}
    /\ pc' = "idle"
    /\ pasted' = ""
    /\ raw_text' = ""
    /\ client' = None
    /\ created' = 0
    /\ calls' = << >>
    /\ result' = None
    /\ error' = None
    /\ ui' = << >>
    /\ UNCHANGED OpenAI
    /\ UNCHANGED sanVars

Next ==
    \/ \E text \in Pastes, constructs \in BOOLEAN : ClickExtract(text, constructs)
    \/ \E resp \in Responses : PrimaryResponds(resp)
    \/ \E resp \in Responses : FallbackResponds(resp)
    \/ Render
    \/ ShowError
    \/ Rerun

Spec == Init /\ [][Next]_vars

---------------------------------------------------------------------------
(* Reading a value in the claims *)

Has(v, k) == v.t = "dict" /\ \E i \in 1..Len(v.d) : v.d[i].k = k

Field(v, k) == v.d[CHOOSE i \in 1..Len(v.d) : v.d[i].k = k].v

Keys(v) == {v.d[i].k : i \in 1..Len(v.d)}

\* the object the spec reads title, properties and required from: the value
\* under "schema" when the input has that key, the input itself otherwise;
\* the empty object when that is no object
InputSchema(raw) ==
    LET c == IF Has(raw, "schema") THEN Field(raw, "schema") ELSE raw
    IN IF c.t = "dict" THEN c ELSE JDict(<< >>)

OutSchema(out) == Field(out, "schema")

OutProps(out) == Field(OutSchema(out), "properties")

OutRequired(out) == Field(OutSchema(out), "required")

WellFormedEntry(e) ==
    /\ e.t = "dict"
    /\ Len(e.d) = 2
    /\ e.d[1] = KV("type", JStr("string"))
    /\ e.d[2].k = "description"
    /\ e.d[2].v.t = "str"

WellFormedResult(out) ==
    /\ Has(out, "schema") /\ Has(out, "guidelines") /\ Has(out, "style_guide")
    /\ Has(OutSchema(out), "type") /\ Has(OutSchema(out), "properties")
    /\ Has(OutSchema(out), "required")
    /\ Field(OutSchema(out), "type") = JStr("object")
    /\ OutProps(out).t = "dict"
    /\ \A i \in 1..Len(OutProps(out).d) :
          /\ WellFormedEntry(OutProps(out).d[i].v)
          /\ \A j \in 1..Len(OutProps(out).d) :
                OutProps(out).d[j].k = OutProps(out).d[i].k => j = i
    /\ OutRequired(out).t = "list"
    /\ \A i \in 1..Len(OutRequired(out).l) :
          /\ OutRequired(out).l[i].t = "str"
          /\ OutRequired(out).l[i].s \in Keys(OutProps(out))

(* C1: for every JSON-like input (null, array, primitive, empty object, or  *)
(* an object with missing or wrongly typed keys) the sanitizer returns      *)
(* without raising, and its output has schema.type = "object", every value  *)
(* of schema.properties exactly {type: "string", description: <a string>},  *)
(* and every entry of schema.required a key of schema.properties.           *)
C1_WellFormed ==
    phase # "input" => ~IsRaised(sanitized) /\ WellFormedResult(sanitized)

C1_Witness ==
    /\ phase = "sanitized"
    /\ raw_result = JList(<< JDict(<< KV("schema", JDict(<< >>)) >>) >>)
    /\ WellFormedResult(sanitized)
    /\ OutProps(sanitized) = JDict(<< >>)

(* C4: sanitizing is idempotent: sanitizing the output of the sanitizer     *)
(* returns a result equal to it in schema (tag, title, type, properties,    *)
(* required), guidelines and style_guide.                                   *)
C4_Idempotent ==
    phase = "resanitized" => resanitized = sanitized

C4_Witness ==
    /\ phase = "resanitized"
    /\ resanitized = sanitized
    /\ Len(OutProps(sanitized).d) = 2
    /\ Len(OutRequired(sanitized).l) = 2
    /\ Field(OutSchema(sanitized), "title") = JStr("Login")
    /\ Field(sanitized, "guidelines") = JStr("Use BDD phrasing.")

(* C5: the sanitized required list is exactly the subsequence, in original  *)
(* order, of the input schema.required made of the entries that are strings *)
(* and keys of the sanitized properties; a required value that is not a     *)
(* sequence yields the empty list.                                          *)
C5_Required ==
    phase # "input" =>
        LET c == InputSchema(raw_result)
            req == IF Has(c, "required") /\ Field(c, "required").t = "list"
                   THEN Field(c, "required").l ELSE << >>
            kept(x) == x.t = "str" /\ x.s \in Keys(OutProps(sanitized))
        IN OutRequired(sanitized) = JList(SelectSeq(req, kept))

C5_Witness ==
    /\ phase = "sanitized"
    /\ Has(InputSchema(raw_result), "required")
    /\ Field(InputSchema(raw_result), "required")
          = JList(<< JStr("f1"), JStr("ghost") >>)
    /\ Keys(OutProps(sanitized)) = {"f1"}
    /\ OutRequired(sanitized) = JList(<< JStr("f1") >>)

\* the description the spec's sentence gives entry e: its description in
\* string form when it has one, the empty string otherwise
C6_DescriptionIfPresent(e) ==
    IF Has(e, "description") THEN py_str(Field(e, "description")) ELSE ""

\* the same, with a null description counted as none
C6_DescriptionIfNotNull(e) ==
    IF Has(e, "description") /\ Field(e, "description") # None
    THEN py_str(Field(e, "description")) ELSE ""

C6_PropsIn(raw) ==
    LET c == InputSchema(raw)
    IN IF Has(c, "properties") /\ Field(c, "properties").t = "dict"
       THEN Field(c, "properties").d ELSE << >>

(* C6 as stated: the sanitized properties have exactly the input's keys, in *)
(* insertion order, each entry {type: "string", description: d} with d the  *)
(* string form of the entry's description if it has one, else "".           *)
C6_AsStated ==
    phase # "input" =>
        LET pin == C6_PropsIn(raw_result)
        IN OutProps(sanitized) =
             JDict([i \in 1..Len(pin) |->
                      KV(pin[i].k,
                         JDict(<< KV("type", JStr("string")),
                                  KV("description",
                                     JStr(C6_DescriptionIfPresent(pin[i].v))) >>))])

(* C6 amended: as above, with d the string form of the entry's description  *)
(* if it has one that is not null, and "" otherwise (no description, a null *)
(* description, or an entry that is no object); properties that are absent  *)
(* or no mapping give empty sanitized properties.                           *)
C6_Properties ==
    phase # "input" =>
        LET pin == C6_PropsIn(raw_result)
        IN OutProps(sanitized) =
             JDict([i \in 1..Len(pin) |->
                      KV(pin[i].k,
                         JDict(<< KV("type", JStr("string")),
                                  KV("description",
                                     JStr(C6_DescriptionIfNotNull(pin[i].v))) >>))])

C6_Witness ==
    /\ phase = "sanitized"
    /\ Len(C6_PropsIn(raw_result)) = 2
    /\ C6_PropsIn(raw_result)[1].k = "f2"
    /\ C6_PropsIn(raw_result)[1].v
          = JDict(<< KV("type", JStr("integer")),
                     KV("description", JStr("count of items")) >>)
    /\ C6_PropsIn(raw_result)[2].v
          = JDict(<< KV("description", None), KV("type", JStr("string")) >>)
    /\ OutProps(sanitized).d[1]
          = KV("f2", JDict(<< KV("type", JStr("string")),
                              KV("description", JStr("count of items")) >>))
    /\ OutProps(sanitized).d[2]
          = KV("f1", JDict(<< KV("type", JStr("string")),
                              KV("description", JStr("")) >>))

(* C8: an object with no "schema" key sanitizes to the same schema as that  *)
(* object wrapped as {"schema": object}; for an object with a "schema" key  *)
(* the schema comes from the nested value only: the keys beside "schema"    *)
(* change nothing in it.                                                    *)
C8_DualMode ==
    phase # "input" /\ raw_result.t = "dict" =>
        IF ~Has(raw_result, "schema")
        THEN OutSchema(sanitized)
               = OutSchema(sanitize_result_with_guidelines(
                               JDict(<< KV("schema", raw_result) >>)))
        ELSE OutSchema(sanitized)
               = OutSchema(sanitize_result_with_guidelines(
                               JDict(<< KV("schema", Field(raw_result, "schema")) >>)))

C8_Witness ==
    /\ phase = "sanitized"
    /\ raw_result.t = "dict"
    /\ ~Has(raw_result, "schema")
    /\ Has(raw_result, "guidelines")
    /\ Field(OutSchema(sanitized), "title") = JStr("Login")
    /\ Len(OutProps(sanitized).d) = 2
    /\ OutSchema(sanitized)
          = OutSchema(sanitize_result_with_guidelines(
                          JDict(<< KV("schema", raw_result) >>)))

---------------------------------------------------------------------------
(* Claims about the Extract action *)

\* the primary attempt failed: the call raised, or its content is no JSON
C2_PrimaryFailed(resp) == resp.raises \/ IsRaised(json_loads(resp.content))

Answered(i) == Len(calls) >= i /\ calls[i].resp # Pending

(* C2: every invocation of extract_json_with_openai issues one primary call *)
(* (JSON mode) first; a fallback call (no JSON mode) is issued only after   *)
(* the primary attempt has failed, and at most once; the calls are 1 or 2,  *)
(* one at a time, and a primary attempt that succeeds returns its parsed    *)
(* value with no second call.                                               *)
C2_CallOrder ==
    /\ Len(calls) <= 2
    /\ pc \in {"primary", "fallback", "extracted", "raised", "done"} => Len(calls) >= 1
    /\ Len(calls) >= 1 => calls[1].mode = "json_object"
    /\ Len(calls) = 2 =>
          /\ calls[2].mode = "none"
          /\ Answered(1)
          /\ C2_PrimaryFailed(calls[1].resp)
    /\ Answered(1) /\ ~C2_PrimaryFailed(calls[1].resp) =>
          /\ Len(calls) = 1
          /\ pc \in {"extracted", "done"}
          /\ result = json_loads(calls[1].resp.content)
    /\ Cardinality({i \in 1..Len(calls) : calls[i].resp = Pending}) <= 1

C2_Witness ==
    /\ pc = "done"
    /\ Len(calls) = 2
    /\ calls[1].resp = Reply(JStr(Fenced("json", "7")))
    /\ calls[2].resp = Reply(JStr(Fenced("json", "7")))
    /\ result = JInt(7)

(* C3: when both attempts fail to yield parseable JSON, the function raises *)
(* one wrapped error carrying the inner error, makes no third attempt, and  *)
(* the Extract action shows that error and no part of a result.             *)
C3_TotalFailure ==
    /\ Len(calls) <= 2
    /\ ( /\ Answered(2)
         /\ C2_PrimaryFailed(calls[1].resp)
         /\ IsRaised(fallback_attempt(calls[2].resp)) ) =>
          /\ pc \in {"raised", "done"}
          /\ result = None
          /\ error # None
          /\ error.type = "RuntimeError"
          /\ error.cause = fallback_attempt(calls[2].resp)
          /\ error.msg = "OpenAI parsing failed: " \o error.cause.msg
          /\ pc = "raised" => ui = << >>
          /\ pc = "done" =>
                ui = << Widget("error", "Failed to extract JSON: " \o error.msg) >>

C3_Witness ==
    /\ pc = "done"
    /\ Len(calls) = 2
    /\ calls[1].resp = CallRaises
    /\ calls[2].resp = Reply(JStr("Sure, here it is"))
    /\ error # None
    /\ error.cause.type = "JSONDecodeError"
    /\ ui = << Widget("error",
                      "Failed to extract JSON: OpenAI parsing failed: Expecting value") >>

(* C7: on the fallback path a JSON body wrapped in a fenced block (opening  *)
(* fence, optional tag "json", the body, closing fence) is returned as the  *)
(* parse of the body alone; content with no leading fence is parsed as it   *)
(* is.                                                                      *)
C7_FencedBody ==
    /\ \A b \in Bodies, tag \in {"", "json"} :
          ( /\ Answered(2)
            /\ calls[2].resp = Reply(JStr(Fenced(tag, b)))
            /\ ~IsRaised(json_loads(JStr(b))) ) =>
               /\ pc \in {"extracted", "done"}
               /\ result = json_loads(JStr(b))
    /\ ( /\ Answered(2)
         /\ ~calls[2].resp.raises
         /\ isinstance_str(calls[2].resp.content)
         /\ ~startswith(strip(calls[2].resp.content.s), Fence) ) =>
            LET parsed == json_loads(JStr(strip(calls[2].resp.content.s)))
            IN IF IsRaised(parsed)
               THEN pc \in {"raised", "done"} /\ error # None /\ error.cause = parsed
               ELSE pc \in {"extracted", "done"} /\ result = parsed

\* C7 for the bodies that hold no fence of their own
C7_FenceFreeBody ==
    \A b \in Bodies, tag \in {"", "json"} :
        ( /\ Answered(2)
          /\ calls[2].resp = Reply(JStr(Fenced(tag, b)))
          /\ find(b, Fence, 1) = 0
          /\ ~IsRaised(json_loads(JStr(b))) ) =>
             /\ pc \in {"extracted", "done"}
             /\ result = json_loads(JStr(b))

C9_Rendered == \E i \in 1..Len(ui) : ui[i].w = "json"

C9_ErrorShown == \E i \in 1..Len(ui) : ui[i].w = "error"

(* C9: every Extract action submitted with non-empty text ends with the     *)
(* canonical result rendered or with a visible error message; no failure    *)
(* (creating the client, the calls, parsing) escapes the action uncaught or *)
(* ends it silently.                                                        *)
C9_VisibleOutcome ==
    pc \in {"done", "stopped", "uncaught"} /\ raw_text # "" =>
        pc = "done" /\ (C9_Rendered \/ C9_ErrorShown)

(* C10: Extract with text that is blank after trimming shows an error and   *)
(* stops before any client is created and before any completion call.       *)
C10_EmptyText ==
    pc # "idle" /\ strip(pasted) = "" =>
        /\ pc = "stopped"
        /\ ui = << Widget("error", "Please paste some template text.") >>
        /\ created = 0
        /\ client = None
        /\ calls = << >>

C10_Witness ==
    /\ pc = "stopped"
    /\ pasted = " \n\t"
    /\ ui = << Widget("error", "Please paste some template text.") >>
    /\ created = 0
    /\ calls = << >>

===========================================================================
